---- MODULE Spec2Model ----
(***************************************************************************)
(* A model of the pmud world engine: rooms (mud/game/areas.py), NPCs       *)
(* (mud/game/mobs.py), players and their combat (mud/server/players.py),   *)
(* the command handler and the world tick (mud/server/manager.py) and the  *)
(* tick loop (mud/server/websocket.py).                                    *)
(*                                                                         *)
(* Scheduling is asyncio's: one task runs at a time and keeps running      *)
(* until it suspends.  A task suspends when it sends text to a session,    *)
(* when it waits for a lock that is held, and when the tick loop sleeps.   *)
(* The variable `running` names the task that has not suspended yet; a     *)
(* step of another task is possible only when running = NoTask.            *)
(***************************************************************************)
EXTENDS Integers, Sequences, FiniteSets, TLC

\* ------------------------------------------------------------------ bounds
\* the number of client connections (websocket_endpoint tasks)
NConns == 2
\* the number of NPC instances Room.spawn may create in one run (uuid4 is unbounded)
MaxMobs == 3
\* the number of commands the connections send after their names, in total
MaxCmds == 3
\* the number of ticks GameLoop.run starts
MaxTicks == 3

\* ------------------------------------------------------- program constants
PlayerHealth == 10
PlayerAttackLo == 4
PlayerAttackHi == 6

Rooms == {1, 2}
StartRoom == 1
NoRoom == 0
Conns == 1..NConns
NoPlayer == 0
NoTask == 0
TickTask == NConns + 1
Tasks == Conns \cup {TickTask}
MobIds == 1..MaxMobs
NoMobId == 0
Names == {"ann", "bob"}
\* the names a connection may send: any, up to renaming (the first connection's
\* name is called "ann")
NameChoices(c) == IF c = 1 THEN {"ann"} ELSE Names
Dirs == {"n", "e", "s", "w"}
\* the directions a movement command gives: in every room of the worlds below
\* at least one of them has no exit ("e" and "w" never have one)
CmdDirs == {"n", "s"}
\* the names a kill command gives: in every world one of them is, at first or
\* for ever, the name of no mob in the room
Targets == {"a rat", "an ogre"}

\* a draw that may exceed hi
randrangeWide(lo, hi) == lo..(hi + 1)
\* random.randrange(lo, hi): lo <= x < hi
randrange(lo, hi) == lo..(hi - 1)

\* ------------------------------------------------------------- NPC templates
\* Mob(...) field values; health, attack_damage, move_cooldown and wanders are
\* data of the template a SpawnedMobs entry holds.
Rat == [name |-> "a rat", health |-> 4, lo |-> 1, hi |-> 2,
        wanders |-> TRUE, move_cooldown |-> 1]
Ogre == [name |-> "an ogre", health |-> 3, lo |-> 11, hi |-> 12,
         wanders |-> FALSE, move_cooldown |-> 1]

NoMob == [name |-> "", health |-> 0, lo |-> 0, hi |-> 0, wanders |-> FALSE,
          move_cooldown |-> 0, move_lock |-> 0, room |-> NoRoom,
          in_combat |-> FALSE, dec |-> <<0, 0>>, origin |-> <<0, 0>>]

\* ------------------------------------------------------------------- worlds
\* The static room graph (exits), the spawn rules and the spawn cooldown of
\* each room.  Trail is the repository's test world with the cooldowns
\* shortened; Pit has a start room without exits and two spawn rules.
Trail(cd) == [exits |-> <<("n" :> 2), ("s" :> 1)>>,
              spawns |-> << <<>>, <<[mob |-> Rat, desired |-> 1]>> >>,
              cooldown |-> <<cd, cd>>]
Pit(cd) == [exits |-> << <<>>, ("s" :> 1)>>,
            spawns |-> << <<[mob |-> Ogre, desired |-> 1],
                            [mob |-> Rat, desired |-> 1]>>, <<>> >>,
            cooldown |-> <<cd, cd>>]
Worlds == {Trail(1), Pit(0)}

VARIABLES
  world,        \* the static configuration chosen at startup
  sharedLock,   \* TRUE: Room._lock is one class attribute shared by all rooms
  rplayers,     \* Room.players: per room, the dict as a sequence of [name, who]
  rmobs,        \* Room.mobs: per room, the dict's keys in insertion order
  spawn_lock,   \* Room.spawn_lock
  current,      \* SpawnedMobs.current, per room and rule
  lock,         \* Room._lock: the task holding it, or NoTask
  registry,     \* Mud.players: name -> connection whose Player is registered
  player,       \* the Player object of each connection
  mob,          \* the Mob instances
  nmobs,        \* how many Mob instances Room.spawn has created
  pc,           \* where each connection's handler task is
  loc,          \* the handler's locals: the room left, the room entered, dir
  bc,           \* each task's Room.broadcast iteration in progress
  running,      \* the task that runs and has not suspended
  tpc,          \* where the GameLoop task is
  troom,        \* the room Mud.update is updating
  tentry,       \* Room.spawn: the index `entry` is bound to
  tframe,       \* Room.spawn: the mobs whose `dec` closes over this call's `entry`
  tsnapP,       \* Room.update: players of the snapshot still to update
  tsnapM,       \* Room.update: mobs of the snapshot still to update
  tupd,         \* history: the mobs whose Mob.update this Mud.update call has run
  tatk,         \* Player.attack's locals
  tmv,          \* Room.add_mob's and Room.move_mob's locals
  ncmds,        \* commands received so far
  nticks,       \* ticks started so far
  sent          \* the text the last step sent

vars == <<world, sharedLock, rplayers, rmobs, spawn_lock, current, lock,
          registry, player, mob, nmobs, pc, loc, bc, running, tpc, troom,
          tentry, tframe, tsnapP, tsnapM, tupd, tatk, tmv, ncmds, nticks, sent>>

\* --------------------------------------------------------------- helpers
exits(r) == world.exits[r]
spawns(r) == world.spawns[r]
spawn_cooldown(r) == world.cooldown[r]

\* which lock object Room r's self._lock is
LockOf(r) == IF sharedLock THEN 1 ELSE r

HasKey(ps, n) == \E i \in 1..Len(ps) : ps[i].name = n
Put(ps, n, c) ==
  IF HasKey(ps, n)
  THEN [i \in 1..Len(ps) |-> IF ps[i].name = n THEN [name |-> n, who |-> c] ELSE ps[i]]
  ELSE Append(ps, [name |-> n, who |-> c])
Pop(ps, n) == SelectSeq(ps, LAMBDA e : e.name # n)
Values(ps) == [i \in 1..Len(ps) |-> ps[i].who]
RemoveId(ms, m) == SelectSeq(ms, LAMBDA x : x # m)
InSeq(s, x) == \E i \in 1..Len(s) : s[i] = x

NoMsg == [to |-> NoPlayer, kind |-> "", subj |-> 0, room |-> NoRoom]
Msg(to, kind, subj, r) == [to |-> to, kind |-> kind, subj |-> subj, room |-> r]

NoBc == [room |-> NoRoom, rest |-> <<>>, size |-> 0, dirty |-> FALSE, kind |-> "", subj |-> 0, then |-> ""]
\* Room.broadcast: the iteration over self.players.values() begins
BcBegin(r, kind, subj) ==
  [room |-> r, rest |-> Values(rplayers[r]), size |-> Len(rplayers[r]), dirty |-> FALSE,
   kind |-> kind, subj |-> subj, then |-> ""]
\* a key was added to or removed from room r's players: iterations over it break
Dirty(b, r) == [t \in Tasks |-> IF b[t].room = r THEN [b[t] EXCEPT !.dirty = TRUE] ELSE b[t]]

NoLoc == [src |-> NoRoom, dst |-> NoRoom, dir |-> ""]
NoPlayerRec == [name |-> "", room |-> NoRoom, health |-> 0, combat |-> NoMobId]
NoAtk == [who |-> NoPlayer, target |-> NoMobId, toMob |-> 0, toPlayer |-> 0]

NoMv == [m |-> NoMobId, src |-> NoRoom, dst |-> NoRoom, from |-> ""]

CanRun(t) == running \in {NoTask, t}

\* Room.get_mob: the first mob of the room with that name, NoMobId for ValueError
GetMob(r, target) ==
  LET idx == {i \in 1..Len(rmobs[r]) : mob[rmobs[r][i]].name = target}
  IN IF idx = {} THEN NoMobId
     ELSE rmobs[r][CHOOSE i \in idx : \A j \in idx : i <= j]

\* how a resumed Room.broadcast iteration may go on: the dict iterator raises
\* RuntimeError when the dict's size changed; when keys changed and the size is
\* the same again, either outcome is possible
BcFailures(b) ==
  IF ~b.dirty THEN {FALSE}
  ELSE IF Len(rplayers[b.room]) # b.size THEN {TRUE}
  ELSE {TRUE, FALSE}

\* ------------------------------------------------------------------- Init
Init ==
  /\ world \in Worlds
  /\ sharedLock \in BOOLEAN
  /\ rplayers = [r \in Rooms |-> <<>>]
  /\ rmobs = [r \in Rooms |-> <<>>]
  /\ spawn_lock = [r \in Rooms |-> 0]
  /\ current = [r \in Rooms |-> [i \in 1..Len(world.spawns[r]) |-> 0]]
  /\ lock = [r \in Rooms |-> NoTask]
  /\ registry = [n \in Names |-> NoPlayer]
  /\ player = [c \in Conns |-> NoPlayerRec]
  /\ mob = [m \in MobIds |-> NoMob]
  /\ nmobs = 0
  /\ pc = [c \in Conns |-> "new"]
  /\ loc = [c \in Conns |-> NoLoc]
  /\ bc = [t \in Tasks |-> NoBc]
  /\ running = NoTask
  /\ tpc = "sleep"
  /\ troom = 0
  /\ tentry = 0
  /\ tframe = {}
  /\ tsnapP = <<>>
  /\ tsnapM = <<>>
  /\ tupd = <<>>
  /\ tatk = NoAtk
  /\ tmv = NoMv
  /\ ncmds = 0
  /\ nticks = 0
  /\ sent = NoMsg

TickVars == <<tpc, troom, tentry, tframe, tsnapP, tsnapM, tupd, tatk, tmv>>
MobVars == <<rmobs, spawn_lock, current, mob, nmobs>>
ConfigVars == <<world, sharedLock>>
CountVars == <<ncmds, nticks>>

\* ------------------------------------------------- Mud.handler: name choice
\* Mud.add_player up to its first send: the Player is created and registered
AddPlayer(c, n) ==
  /\ pc[c] = "new"
  /\ running = NoTask
  /\ player' = [player EXCEPT ![c] = [name |-> n, room |-> NoRoom,
                                      health |-> PlayerHealth, combat |-> NoMobId]]
  /\ registry' = [registry EXCEPT ![n] = c]
  /\ sent' = Msg(c, "joining", c, NoRoom)
  /\ pc' = [pc EXCEPT ![c] = "enter"]
  /\ loc' = [loc EXCEPT ![c] = [src |-> NoRoom, dst |-> StartRoom, dir |-> ""]]
  /\ running' = NoTask
  /\ UNCHANGED <<ConfigVars, CountVars, rplayers, MobVars, lock, bc, TickVars>>

\* ------------------------------------------------------------- Room.enter
\* EnterAcquire that begins the broadcast without taking the lock
EnterAcquireSkips(c) ==
  /\ pc[c] = "enter"
  /\ CanRun(c)
  /\ UNCHANGED lock
  /\ bc' = [bc EXCEPT ![c] = BcBegin(loc[c].dst, "enters", c)]
  /\ pc' = [pc EXCEPT ![c] = "enter_bc"]
  /\ running' = c
  /\ sent' = NoMsg
  /\ UNCHANGED <<ConfigVars, CountVars, rplayers, MobVars, registry, player, loc, TickVars>>

\* `async with self._lock` of Room.enter, and the broadcast's iteration begins
EnterAcquire(c) ==
  /\ pc[c] = "enter"
  /\ CanRun(c)
  /\ lock[LockOf(loc[c].dst)] = NoTask
  /\ lock' = [lock EXCEPT ![LockOf(loc[c].dst)] = c]
  /\ bc' = [bc EXCEPT ![c] = BcBegin(loc[c].dst, "enters", c)]
  /\ pc' = [pc EXCEPT ![c] = "enter_bc"]
  /\ running' = c
  /\ sent' = NoMsg
  /\ UNCHANGED <<ConfigVars, CountVars, rplayers, MobVars, registry, player, loc, TickVars>>

\* a handler that needs a lock another task holds suspends
PlayerWait(c) ==
  /\ running = c
  /\ \/ pc[c] = "enter" /\ lock[LockOf(loc[c].dst)] # NoTask
     \/ pc[c] = "leave_lock" /\ lock[LockOf(loc[c].src)] # NoTask
  /\ running' = NoTask
  /\ sent' = NoMsg
  /\ UNCHANGED <<ConfigVars, CountVars, rplayers, MobVars, lock, registry, player, pc, loc, bc, TickVars>>

\* Room.enter under the lock: "{name} enters." goes to one more occupant, or,
\* the iteration over, self.players[player.name] = player
EnterBroadcast(c) ==
  /\ pc[c] = "enter_bc"
  /\ CanRun(c)
  /\ \E fail \in BcFailures(bc[c]) :
       IF fail
       THEN /\ pc' = [pc EXCEPT ![c] = "crashed"]
            /\ loc' = [loc EXCEPT ![c] = NoLoc]
            /\ lock' = [lock EXCEPT ![LockOf(loc[c].dst)] = NoTask]
            /\ bc' = [bc EXCEPT ![c] = NoBc]
            /\ running' = NoTask
            /\ sent' = NoMsg
            /\ UNCHANGED rplayers
       ELSE IF bc[c].rest # <<>>
       THEN /\ sent' = Msg(Head(bc[c].rest), "enters", c, loc[c].dst)
            /\ bc' = [bc EXCEPT ![c].rest = Tail(@)]
            /\ running' = NoTask
            /\ UNCHANGED <<pc, lock, rplayers, loc>>
       ELSE /\ rplayers' = [rplayers EXCEPT ![loc[c].dst] = Put(@, player[c].name, c)]
            /\ bc' = IF HasKey(rplayers[loc[c].dst], player[c].name)
                     THEN [bc EXCEPT ![c] = NoBc]
                     ELSE [Dirty(bc, loc[c].dst) EXCEPT ![c] = NoBc]
            /\ pc' = [pc EXCEPT ![c] = "enter_rel"]
            /\ running' = c
            /\ sent' = NoMsg
            /\ UNCHANGED <<lock, loc>>
  /\ UNCHANGED <<ConfigVars, CountVars, MobVars, registry, player, TickVars>>

\* Room.enter after the lock: the lock is released, player.set_room(self), and
\* the room description is sent to the player
EnterRelease(c) ==
  /\ pc[c] = "enter_rel"
  /\ CanRun(c)
  /\ lock' = [lock EXCEPT ![LockOf(loc[c].dst)] = NoTask]
  /\ player' = [player EXCEPT ![c].room = loc[c].dst]
  /\ sent' = Msg(c, "room", 0, loc[c].dst)
  /\ pc' = [pc EXCEPT ![c] = IF loc[c].src = NoRoom THEN "idle" ELSE "leave_bc0"]
  /\ loc' = [loc EXCEPT ![c] = IF loc[c].src = NoRoom THEN NoLoc ELSE @]
  /\ running' = NoTask
  /\ UNCHANGED <<ConfigVars, CountVars, rplayers, MobVars, registry, bc, TickVars>>

\* ------------------------------------------------ Player.move / Room.leave
\* the movement command: Player.move asserts a room and calls its leave
Move(c, d) ==
  /\ pc[c] = "idle"
  /\ running = NoTask
  /\ ncmds < MaxCmds
  /\ ncmds' = ncmds + 1
  /\ IF player[c].room = NoRoom
     THEN /\ pc' = [pc EXCEPT ![c] = "crashed"]
          /\ running' = NoTask
          /\ UNCHANGED loc
     ELSE /\ pc' = [pc EXCEPT ![c] = "leave"]
          /\ loc' = [loc EXCEPT ![c] = [src |-> player[c].room, dst |-> NoRoom, dir |-> d]]
          /\ running' = c
  /\ sent' = NoMsg
  /\ UNCHANGED <<ConfigVars, nticks, rplayers, MobVars, lock, registry, player, bc, TickVars>>

\* LeaveCheck with the player popped before the exit check
LeaveCheckPops(c) ==
  /\ pc[c] = "leave"
  /\ CanRun(c)
  /\ IF loc[c].dir \notin DOMAIN exits(loc[c].src)
     THEN /\ sent' = Msg(c, "noexit", c, loc[c].src)
          /\ rplayers' = [rplayers EXCEPT ![loc[c].src] = Pop(@, player[c].name)]
          /\ pc' = [pc EXCEPT ![c] = "idle"]
          /\ loc' = [loc EXCEPT ![c] = NoLoc]
          /\ running' = NoTask
     ELSE /\ sent' = NoMsg
          /\ pc' = [pc EXCEPT ![c] = "leave_lock"]
          /\ running' = c
          /\ UNCHANGED <<loc, rplayers>>
  /\ UNCHANGED <<ConfigVars, CountVars, MobVars, lock, registry, player, bc, TickVars>>

\* Room.leave: the exit check
LeaveCheck(c) ==
  /\ pc[c] = "leave"
  /\ CanRun(c)
  /\ IF loc[c].dir \notin DOMAIN exits(loc[c].src)
     THEN /\ sent' = Msg(c, "noexit", c, loc[c].src)
          /\ pc' = [pc EXCEPT ![c] = "idle"]
          /\ loc' = [loc EXCEPT ![c] = NoLoc]
          /\ running' = NoTask
     ELSE /\ sent' = NoMsg
          /\ pc' = [pc EXCEPT ![c] = "leave_lock"]
          /\ running' = c
          /\ UNCHANGED loc
  /\ UNCHANGED <<ConfigVars, CountVars, rplayers, MobVars, lock, registry, player, bc, TickVars>>

\* LeaveAcquire without the lock
LeaveAcquireSkips(c) ==
  /\ pc[c] = "leave_lock"
  /\ CanRun(c)
  /\ UNCHANGED lock
  /\ pc' = [pc EXCEPT ![c] = "leave_pop"]
  /\ running' = c
  /\ sent' = NoMsg
  /\ UNCHANGED <<ConfigVars, CountVars, rplayers, MobVars, registry, player, loc, bc, TickVars>>

\* `async with self._lock` of Room.leave
LeaveAcquire(c) ==
  /\ pc[c] = "leave_lock"
  /\ CanRun(c)
  /\ lock[LockOf(loc[c].src)] = NoTask
  /\ lock' = [lock EXCEPT ![LockOf(loc[c].src)] = c]
  /\ pc' = [pc EXCEPT ![c] = "leave_pop"]
  /\ running' = c
  /\ sent' = NoMsg
  /\ UNCHANGED <<ConfigVars, CountVars, rplayers, MobVars, registry, player, loc, bc, TickVars>>

\* LeavePop that leaves the player in the map of the room left
LeavePopKeeps(c) ==
  /\ pc[c] = "leave_pop"
  /\ CanRun(c)
  /\ IF ~HasKey(rplayers[loc[c].src], player[c].name)
     THEN /\ pc' = [pc EXCEPT ![c] = "crashed"]
          /\ loc' = [loc EXCEPT ![c] = NoLoc]
          /\ lock' = [lock EXCEPT ![LockOf(loc[c].src)] = NoTask]
          /\ running' = NoTask
          /\ UNCHANGED <<rplayers, bc>>
     ELSE /\ UNCHANGED rplayers
          /\ bc' = Dirty(bc, loc[c].src)
          /\ pc' = [pc EXCEPT ![c] = "leave_rel"]
          /\ running' = c
          /\ UNCHANGED <<lock, loc>>
  /\ sent' = NoMsg
  /\ UNCHANGED <<ConfigVars, CountVars, MobVars, registry, player, TickVars>>

\* self.players.pop(player.name): KeyError when the name is not a key
LeavePop(c) ==
  /\ pc[c] = "leave_pop"
  /\ CanRun(c)
  /\ IF ~HasKey(rplayers[loc[c].src], player[c].name)
     THEN /\ pc' = [pc EXCEPT ![c] = "crashed"]
          /\ loc' = [loc EXCEPT ![c] = NoLoc]
          /\ lock' = [lock EXCEPT ![LockOf(loc[c].src)] = NoTask]
          /\ running' = NoTask
          /\ UNCHANGED <<rplayers, bc>>
     ELSE /\ rplayers' = [rplayers EXCEPT ![loc[c].src] = Pop(@, player[c].name)]
          /\ bc' = Dirty(bc, loc[c].src)
          /\ pc' = [pc EXCEPT ![c] = "leave_rel"]
          /\ running' = c
          /\ UNCHANGED <<lock, loc>>
  /\ sent' = NoMsg
  /\ UNCHANGED <<ConfigVars, CountVars, MobVars, registry, player, TickVars>>

\* LeaveRelease with the lock of the room left kept while the next room is entered
LeaveReleaseKeeps(c) ==
  /\ pc[c] = "leave_rel"
  /\ CanRun(c)
  /\ UNCHANGED lock
  /\ loc' = [loc EXCEPT ![c].dst = exits(loc[c].src)[loc[c].dir]]
  /\ pc' = [pc EXCEPT ![c] = "enter"]
  /\ running' = c
  /\ sent' = NoMsg
  /\ UNCHANGED <<ConfigVars, CountVars, rplayers, MobVars, registry, player, bc, TickVars>>

\* LeaveRelease whose next_room is the room left
LeaveReleaseStays(c) ==
  /\ pc[c] = "leave_rel"
  /\ CanRun(c)
  /\ lock' = [lock EXCEPT ![LockOf(loc[c].src)] = NoTask]
  /\ loc' = [loc EXCEPT ![c].dst = loc[c].src]
  /\ pc' = [pc EXCEPT ![c] = "enter"]
  /\ running' = c
  /\ sent' = NoMsg
  /\ UNCHANGED <<ConfigVars, CountVars, rplayers, MobVars, registry, player, bc, TickVars>>

\* the lock of the room left is released; next_room = rooms[self.exits[dir]]
LeaveRelease(c) ==
  /\ pc[c] = "leave_rel"
  /\ CanRun(c)
  /\ lock' = [lock EXCEPT ![LockOf(loc[c].src)] = NoTask]
  /\ loc' = [loc EXCEPT ![c].dst = exits(loc[c].src)[loc[c].dir]]
  /\ pc' = [pc EXCEPT ![c] = "enter"]
  /\ running' = c
  /\ sent' = NoMsg
  /\ UNCHANGED <<ConfigVars, CountVars, rplayers, MobVars, registry, player, bc, TickVars>>

\* Room.leave after next_room.enter returned: the broadcast over the room left begins
LeaveBcBegin(c) ==
  /\ pc[c] = "leave_bc0"
  /\ CanRun(c)
  /\ bc' = [bc EXCEPT ![c] = BcBegin(loc[c].src, "leaves", c)]
  /\ pc' = [pc EXCEPT ![c] = "leave_bc"]
  /\ running' = c
  /\ sent' = NoMsg
  /\ UNCHANGED <<ConfigVars, CountVars, rplayers, MobVars, lock, registry, player, loc, TickVars>>

\* "{name} leaves." goes to one more occupant of the room left, without the lock
LeaveBroadcast(c) ==
  /\ pc[c] = "leave_bc"
  /\ CanRun(c)
  /\ \E fail \in BcFailures(bc[c]) :
       IF fail
       THEN /\ pc' = [pc EXCEPT ![c] = "crashed"]
            /\ loc' = [loc EXCEPT ![c] = NoLoc]
            /\ bc' = [bc EXCEPT ![c] = NoBc]
            /\ sent' = NoMsg
       ELSE IF bc[c].rest # <<>>
       THEN /\ sent' = Msg(Head(bc[c].rest), "leaves", c, loc[c].src)
            /\ bc' = [bc EXCEPT ![c].rest = Tail(@)]
            /\ UNCHANGED <<pc, loc>>
       ELSE /\ pc' = [pc EXCEPT ![c] = "idle"]
            /\ loc' = [loc EXCEPT ![c] = NoLoc]
            /\ bc' = [bc EXCEPT ![c] = NoBc]
            /\ sent' = NoMsg
  /\ running' = NoTask
  /\ UNCHANGED <<ConfigVars, CountVars, rplayers, MobVars, lock, registry, player, TickVars>>

\* ------------------------------------------------------ Player.start_combat
\* the kill command: no room, nothing; ValueError of get_mob, a message;
\* otherwise self.combat = Combat(target=mob)
StartCombat(c, target) ==
  /\ pc[c] = "idle"
  /\ running = NoTask
  /\ ncmds < MaxCmds
  /\ ncmds' = ncmds + 1
  /\ IF player[c].room = NoRoom
     THEN /\ sent' = NoMsg
          /\ UNCHANGED player
     ELSE IF GetMob(player[c].room, target) = NoMobId
     THEN /\ sent' = Msg(c, "nobody", 0, player[c].room)
          /\ UNCHANGED player
     ELSE /\ player' = [player EXCEPT ![c].combat = GetMob(player[c].room, target)]
          /\ sent' = NoMsg
  /\ running' = NoTask
  /\ UNCHANGED <<ConfigVars, nticks, rplayers, MobVars, lock, registry, pc, loc, bc, TickVars>>

\* ------------------------------------------------------------ GameLoop.run
PlayerSide == <<rplayers, registry, player, pc, loc>>

\* `entry.current < entry.desired` of Room.spawn
SpawnEligibleLe(r, i) == current[r][i] <= spawns(r)[i].desired
SpawnEligible(r, i) == current[r][i] < spawns(r)[i].desired

\* the rules a tick starting now finds below their desired count: the tick is
\* started only while the instances it may create are within MaxMobs
SpawnDemand ==
  Cardinality({ri \in Rooms \X (1..2) :
                 /\ ri[2] <= Len(spawns(ri[1]))
                 /\ SpawnEligible(ri[1], ri[2])})

\* the sleep of GameLoop.run is over: Mud.update starts with the first room
TickBegin ==
  /\ tpc = "sleep"
  /\ running = NoTask
  /\ nticks < MaxTicks
  /\ nticks' = nticks + 1
  /\ nmobs + SpawnDemand <= MaxMobs
  /\ troom' = 1
  /\ tpc' = "update"
  /\ running' = TickTask
  /\ sent' = NoMsg
  /\ UNCHANGED <<ConfigVars, ncmds, MobVars, PlayerSide, lock, bc, tentry, tframe, tsnapP, tsnapM, tupd, tatk, tmv>>

\* Room.update: the spawn cooldown counts down and Room.spawn is called
RoomUpdate ==
  /\ tpc = "update"
  /\ running = TickTask
  /\ spawn_lock' = [spawn_lock EXCEPT ![troom] = IF @ > 0 THEN @ - 1 ELSE @]
  /\ tentry' = 0
  /\ tframe' = {}
  /\ tpc' = "spawn"
  /\ sent' = NoMsg
  /\ UNCHANGED <<ConfigVars, CountVars, rmobs, current, mob, nmobs, PlayerSide, lock, bc, running,
                 troom, tsnapP, tsnapM, tupd, tatk, tmv>>

\* entry.mob.copy(update={"id": uuid4(), "on_death": [dec]})
NewMob(r, i) ==
  [name |-> spawns(r)[i].mob.name, health |-> spawns(r)[i].mob.health,
   lo |-> spawns(r)[i].mob.lo, hi |-> spawns(r)[i].mob.hi,
   wanders |-> spawns(r)[i].mob.wanders,
   move_cooldown |-> spawns(r)[i].mob.move_cooldown, move_lock |-> 0,
   room |-> NoRoom, in_combat |-> FALSE, dec |-> <<r, i>>, origin |-> <<r, i>>]

\* the `entry` every dec closure created by this call of Room.spawn reads is
\* the one variable of the call: binding it to rule i rebinds it for all of them
Rebind(mb, frame, r, i) ==
  [m \in MobIds |-> IF m \in frame THEN [mb[m] EXCEPT !.dec = <<r, i>>] ELSE mb[m]]

\* Room.spawn: one iteration of `for entry in self.spawns`, up to add_mob
SpawnNext ==
  /\ tpc = "spawn"
  /\ running = TickTask
  /\ LET r == troom
         i == tentry + 1
     IN IF i > Len(spawns(r))
        THEN /\ tpc' = "players"
             /\ tsnapP' = Values(rplayers[r])
             /\ tentry' = 0
             /\ tframe' = {}
             /\ UNCHANGED <<mob, nmobs, tmv>>
        ELSE IF spawn_lock[r] > 0
        THEN /\ tpc' = "players"
             /\ tsnapP' = Values(rplayers[r])
             /\ tentry' = 0
             /\ tframe' = {}
             /\ mob' = Rebind(mob, tframe, r, i)
             /\ UNCHANGED <<nmobs, tmv>>
        ELSE IF SpawnEligible(r, i)
        THEN /\ nmobs < MaxMobs
             /\ nmobs' = nmobs + 1
             /\ mob' = [Rebind(mob, tframe, r, i) EXCEPT ![nmobs + 1] = NewMob(r, i)]
             /\ tframe' = tframe \cup {nmobs + 1}
             /\ tentry' = i
             /\ tmv' = [m |-> nmobs + 1, src |-> NoRoom, dst |-> r, from |-> "spawn"]
             /\ tpc' = "add_lock"
             /\ UNCHANGED tsnapP
        ELSE /\ tentry' = i
             /\ mob' = Rebind(mob, tframe, r, i)
             /\ UNCHANGED <<tpc, tsnapP, nmobs, tframe, tmv>>
  /\ sent' = NoMsg
  /\ UNCHANGED <<ConfigVars, CountVars, rmobs, spawn_lock, current, PlayerSide, lock, bc, running,
                 troom, tsnapM, tupd, tatk>>

\* the tick task needs a lock a handler holds: it suspends
TickWait ==
  /\ running = TickTask
  /\ \/ tpc = "add_lock" /\ lock[LockOf(tmv.dst)] # NoTask
     \/ tpc = "mv_lock" /\ lock[LockOf(tmv.src)] # NoTask
  /\ running' = NoTask
  /\ sent' = NoMsg
  /\ UNCHANGED <<ConfigVars, CountVars, MobVars, PlayerSide, lock, bc, TickVars>>

\* `async with self._lock` of Room.add_mob
AddMobAcquire ==
  /\ tpc = "add_lock"
  /\ CanRun(TickTask)
  /\ lock[LockOf(tmv.dst)] = NoTask
  /\ lock' = [lock EXCEPT ![LockOf(tmv.dst)] = TickTask]
  /\ tpc' = "add_ins"
  /\ running' = TickTask
  /\ sent' = NoMsg
  /\ UNCHANGED <<ConfigVars, CountVars, MobVars, PlayerSide, bc, troom, tentry, tframe, tsnapP,
                 tsnapM, tupd, tatk, tmv>>

\* self.mobs[mob.id] = mob
AddMobInsert ==
  /\ tpc = "add_ins"
  /\ running = TickTask
  /\ rmobs' = [rmobs EXCEPT ![tmv.dst] = IF InSeq(@, tmv.m) THEN @ ELSE Append(@, tmv.m)]
  /\ tpc' = "add_rel"
  /\ sent' = NoMsg
  /\ UNCHANGED <<ConfigVars, CountVars, spawn_lock, current, mob, nmobs, PlayerSide, lock, bc,
                 running, troom, tentry, tframe, tsnapP, tsnapM, tupd, tatk, tmv>>

\* Room.add_mob after the lock: mob.set_room(self), and the broadcast of the
\* enter text begins
AddMobRelease ==
  /\ tpc = "add_rel"
  /\ running = TickTask
  /\ lock' = [lock EXCEPT ![LockOf(tmv.dst)] = NoTask]
  /\ mob' = [mob EXCEPT ![tmv.m].room = tmv.dst]
  /\ bc' = [bc EXCEPT ![TickTask] =
              [BcBegin(tmv.dst, "arrives", tmv.m) EXCEPT
                 !.then = IF tmv.from = "spawn" THEN "spawned" ELSE "mv_left"]]
  /\ tpc' = "bcast"
  /\ sent' = NoMsg
  /\ UNCHANGED <<ConfigVars, CountVars, rmobs, spawn_lock, current, nmobs, PlayerSide, running,
                 troom, tentry, tframe, tsnapP, tsnapM, tupd, tatk, tmv>>

\* Room.broadcast called by the tick task, without a lock: the text goes to one
\* more occupant, or the iteration is over, or it raises
TickBroadcast ==
  /\ tpc = "bcast"
  /\ CanRun(TickTask)
  /\ \E fail \in BcFailures(bc[TickTask]) :
       IF fail
       THEN /\ tpc' = "crashed"
            /\ bc' = [bc EXCEPT ![TickTask] = NoBc]
            /\ running' = NoTask
            /\ sent' = NoMsg
       ELSE IF bc[TickTask].rest # <<>>
       THEN /\ sent' = Msg(Head(bc[TickTask].rest), bc[TickTask].kind,
                           bc[TickTask].subj, bc[TickTask].room)
            /\ bc' = [bc EXCEPT ![TickTask].rest = Tail(@)]
            /\ running' = NoTask
            /\ UNCHANGED tpc
       ELSE /\ tpc' = bc[TickTask].then
            /\ bc' = [bc EXCEPT ![TickTask] = NoBc]
            /\ running' = TickTask
            /\ sent' = NoMsg
  /\ UNCHANGED <<ConfigVars, CountVars, MobVars, PlayerSide, lock, troom, tentry, tframe, tsnapP,
                 tsnapM, tupd, tatk, tmv>>

\* Room.spawn after add_mob: entry.current += 1, self.spawn_lock += self.spawn_cooldown
SpawnDone ==
  /\ tpc = "spawned"
  /\ running = TickTask
  /\ current' = [current EXCEPT ![troom][tentry] = @ + 1]
  /\ spawn_lock' = [spawn_lock EXCEPT ![troom] = @ + spawn_cooldown(troom)]
  /\ tpc' = "spawn"
  /\ tmv' = NoMv
  /\ sent' = NoMsg
  /\ UNCHANGED <<ConfigVars, CountVars, rmobs, mob, nmobs, PlayerSide, lock, bc, running, troom,
                 tentry, tframe, tsnapP, tsnapM, tupd, tatk>>

\* ------------------------------------------- Room.update: the players' turn
\* `for player in list(self.players.values())`: Player.update of the next
\* player; with a combat session, Player.attack up to its first send
PlayersNext ==
  /\ tpc = "players"
  /\ running = TickTask
  /\ IF tsnapP = <<>>
     THEN /\ tpc' = "mobs"
          /\ tsnapM' = rmobs[troom]
          /\ sent' = NoMsg
          /\ UNCHANGED <<tsnapP, tatk, running>>
     ELSE IF player[Head(tsnapP)].combat = NoMobId
     THEN /\ tsnapP' = Tail(tsnapP)
          /\ sent' = NoMsg
          /\ UNCHANGED <<tpc, tsnapM, tatk, running>>
     ELSE /\ \E dm \in randrange(PlayerAttackLo, PlayerAttackHi) :
             \E dp \in randrange(mob[player[Head(tsnapP)].combat].lo,
                                 mob[player[Head(tsnapP)].combat].hi) :
               tatk' = [who |-> Head(tsnapP), target |-> player[Head(tsnapP)].combat,
                        toMob |-> dm, toPlayer |-> dp]
          /\ tsnapP' = Tail(tsnapP)
          /\ sent' = Msg(Head(tsnapP), "you_attack", player[Head(tsnapP)].combat, NoRoom)
          /\ tpc' = "atk_mob"
          /\ running' = NoTask
          /\ UNCHANGED tsnapM
  /\ UNCHANGED <<ConfigVars, CountVars, MobVars, PlayerSide, lock, bc, troom, tentry, tframe, tmv, tupd>>

\* Mob.take_damage, and Mob.die up to its broadcast: self.room.broadcast raises
\* AttributeError when the mob has no room
AttackMob ==
  /\ tpc = "atk_mob"
  /\ CanRun(TickTask)
  /\ mob' = [mob EXCEPT ![tatk.target].health = @ - tatk.toMob]
  /\ IF mob'[tatk.target].health >= 0
     THEN /\ tpc' = "atk_back"
          /\ running' = TickTask
          /\ UNCHANGED bc
     ELSE IF mob[tatk.target].room = NoRoom
     THEN /\ tpc' = "crashed"
          /\ running' = NoTask
          /\ UNCHANGED bc
     ELSE /\ bc' = [bc EXCEPT ![TickTask] =
                      [BcBegin(mob[tatk.target].room, "dies", tatk.target) EXCEPT
                         !.then = "died"]]
          /\ tpc' = "bcast"
          /\ running' = TickTask
  /\ sent' = NoMsg
  /\ UNCHANGED <<ConfigVars, CountVars, rmobs, spawn_lock, current, nmobs, PlayerSide, lock, troom,
                 tentry, tframe, tsnapP, tsnapM, tupd, tatk, tmv>>

\* the on_death callback of a spawned mob: entry.current -= 1, for the entry
\* its closure reads now
OnDeath(cur, m) ==
  IF mob[m].dec = <<0, 0>> THEN cur
  ELSE [cur EXCEPT ![mob[m].dec[1]][mob[m].dec[2]] = @ - 1]

\* Mob.die after its broadcast: the on_death callbacks, then self.set_room(None)
MobDied ==
  /\ tpc = "died"
  /\ running = TickTask
  /\ current' = OnDeath(current, tatk.target)
  /\ mob' = [mob EXCEPT ![tatk.target].room = NoRoom]
  /\ tpc' = "atk_back"
  /\ sent' = NoMsg
  /\ UNCHANGED <<ConfigVars, CountVars, rmobs, spawn_lock, nmobs, PlayerSide, lock, bc, running,
                 troom, tentry, tframe, tsnapP, tsnapM, tupd, tatk, tmv>>

\* Player.attack: the text of the mob's blow, which reads self.combat.target
AttackBack ==
  /\ tpc = "atk_back"
  /\ running = TickTask
  /\ IF player[tatk.who].combat = NoMobId
     THEN /\ tpc' = "crashed"
          /\ sent' = NoMsg
     ELSE /\ tpc' = "atk_player"
          /\ sent' = Msg(tatk.who, "attacks_you", player[tatk.who].combat, NoRoom)
  /\ running' = NoTask
  /\ UNCHANGED <<ConfigVars, CountVars, MobVars, PlayerSide, lock, bc, troom, tentry, tframe,
                 tsnapP, tsnapM, tupd, tatk, tmv>>

\* Player.take_damage, and Player.die up to its send
AttackPlayer ==
  /\ tpc = "atk_player"
  /\ CanRun(TickTask)
  /\ IF player[tatk.who].health - tatk.toPlayer >= 0
     THEN /\ player' = [player EXCEPT ![tatk.who].health = @ - tatk.toPlayer]
          /\ tpc' = "players"
          /\ tatk' = NoAtk
          /\ running' = TickTask
          /\ sent' = NoMsg
          /\ UNCHANGED mob
     ELSE /\ player' = [player EXCEPT ![tatk.who].health = @ - tatk.toPlayer,
                                      ![tatk.who].combat = NoMobId]
          /\ mob' = IF player[tatk.who].combat = NoMobId THEN mob
                    ELSE [mob EXCEPT ![player[tatk.who].combat].in_combat = FALSE]
          /\ tpc' = "pdied"
          /\ UNCHANGED tatk
          /\ running' = NoTask
          /\ sent' = Msg(tatk.who, "you_die", 0, NoRoom)
  /\ UNCHANGED <<ConfigVars, CountVars, rmobs, spawn_lock, current, nmobs, rplayers, registry, pc,
                 loc, lock, bc, troom, tentry, tframe, tsnapP, tsnapM, tupd, tmv>>

\* Player.die after its send: self.set_room(None)
PlayerDied ==
  /\ tpc = "pdied"
  /\ CanRun(TickTask)
  /\ player' = [player EXCEPT ![tatk.who].room = NoRoom]
  /\ tpc' = "players"
  /\ tatk' = NoAtk
  /\ running' = TickTask
  /\ sent' = NoMsg
  /\ UNCHANGED <<ConfigVars, CountVars, MobVars, rplayers, registry, pc, loc, lock, bc, troom,
                 tentry, tframe, tsnapP, tsnapM, tupd, tmv>>

\* ---------------------------------------------- Room.update: the mobs' turn
\* the room's update is over: the next room of Mud.rooms, or the sleep
RoomDone ==
  /\ tpc = "mobs"
  /\ running = TickTask
  /\ tsnapM = <<>>
  /\ IF troom + 1 \in Rooms
     THEN /\ troom' = troom + 1
          /\ tpc' = "update"
          /\ UNCHANGED <<running, tupd>>
     ELSE /\ troom' = 0
          /\ tpc' = "sleep"
          /\ running' = NoTask
          /\ tupd' = <<>>
  /\ sent' = NoMsg
  /\ UNCHANGED <<ConfigVars, CountVars, MobVars, PlayerSide, lock, bc, tentry, tframe, tsnapP,
                 tsnapM, tatk, tmv>>

\* Mob.update of a mob that does not move: it has no room, is in combat, counts
\* its move_lock down, does not wander, has no exit, or the random draw fails
MobStay ==
  /\ tpc = "mobs"
  /\ running = TickTask
  /\ tsnapM # <<>>
  /\ LET m == Head(tsnapM)
     IN mob' = IF mob[m].room # NoRoom /\ ~mob[m].in_combat /\ mob[m].move_lock > 0
               THEN [mob EXCEPT ![m].move_lock = @ - 1]
               ELSE mob
  /\ tsnapM' = Tail(tsnapM)
  /\ tupd' = Append(tupd, Head(tsnapM))
  /\ sent' = NoMsg
  /\ UNCHANGED <<ConfigVars, CountVars, rmobs, spawn_lock, current, nmobs, PlayerSide, lock, bc,
                 running, tpc, troom, tentry, tframe, tsnapP, tatk, tmv>>

\* MayMove without the test of move_lock
MayMoveLocked(m) ==
  /\ mob[m].room # NoRoom
  /\ ~mob[m].in_combat
  /\ mob[m].wanders
  /\ DOMAIN exits(mob[m].room) # {}

\* the condition of Mob.update under which the random draw decides on a move
MayMove(m) ==
  /\ mob[m].room # NoRoom
  /\ ~mob[m].in_combat
  /\ mob[m].move_lock = 0
  /\ mob[m].wanders
  /\ DOMAIN exits(mob[m].room) # {}

\* Mob.update of a mob that moves: the move cooldown is added and
\* self.room.move_mob(self, self.room.random_exit()) is called
MobMove ==
  /\ tpc = "mobs"
  /\ running = TickTask
  /\ tsnapM # <<>>
  /\ MayMove(Head(tsnapM))
  /\ \E d \in DOMAIN exits(mob[Head(tsnapM)].room) :
       tmv' = [m |-> Head(tsnapM), src |-> mob[Head(tsnapM)].room,
               dst |-> exits(mob[Head(tsnapM)].room)[d], from |-> "move"]
  /\ mob' = [mob EXCEPT ![Head(tsnapM)].move_lock = @ + mob[Head(tsnapM)].move_cooldown]
  /\ tsnapM' = Tail(tsnapM)
  /\ tupd' = Append(tupd, Head(tsnapM))
  /\ tpc' = "mv_lock"
  /\ sent' = NoMsg
  /\ UNCHANGED <<ConfigVars, CountVars, rmobs, spawn_lock, current, nmobs, PlayerSide, lock, bc,
                 running, troom, tentry, tframe, tsnapP, tatk>>

\* `async with self._lock` of Room.move_mob
MoveAcquire ==
  /\ tpc = "mv_lock"
  /\ CanRun(TickTask)
  /\ lock[LockOf(tmv.src)] = NoTask
  /\ lock' = [lock EXCEPT ![LockOf(tmv.src)] = TickTask]
  /\ tpc' = "mv_pop"
  /\ running' = TickTask
  /\ sent' = NoMsg
  /\ UNCHANGED <<ConfigVars, CountVars, MobVars, PlayerSide, bc, troom, tentry, tframe, tsnapP,
                 tsnapM, tupd, tatk, tmv>>

\* MovePop that leaves the mob in the map of the room left
MovePopKeeps ==
  /\ tpc = "mv_pop"
  /\ running = TickTask
  /\ tpc' = "mv_rel"
  /\ sent' = NoMsg
  /\ UNCHANGED <<ConfigVars, CountVars, MobVars, PlayerSide, lock, running, bc, troom,
                 tentry, tframe, tsnapP, tsnapM, tupd, tatk, tmv>>

\* self.mobs.pop(mob.id): KeyError when the room does not hold the mob
MovePop ==
  /\ tpc = "mv_pop"
  /\ running = TickTask
  /\ IF ~InSeq(rmobs[tmv.src], tmv.m)
     THEN /\ tpc' = "crashed"
          /\ lock' = [lock EXCEPT ![LockOf(tmv.src)] = NoTask]
          /\ running' = NoTask
          /\ UNCHANGED rmobs
     ELSE /\ rmobs' = [rmobs EXCEPT ![tmv.src] = RemoveId(@, tmv.m)]
          /\ tpc' = "mv_rel"
          /\ UNCHANGED <<lock, running>>
  /\ sent' = NoMsg
  /\ UNCHANGED <<ConfigVars, CountVars, spawn_lock, current, mob, nmobs, PlayerSide, bc, troom,
                 tentry, tframe, tsnapP, tsnapM, tupd, tatk, tmv>>

\* the lock of the room left is released; next_room.add_mob(mob) is called
MoveRelease ==
  /\ tpc = "mv_rel"
  /\ running = TickTask
  /\ lock' = [lock EXCEPT ![LockOf(tmv.src)] = NoTask]
  /\ tpc' = "add_lock"
  /\ sent' = NoMsg
  /\ UNCHANGED <<ConfigVars, CountVars, MobVars, PlayerSide, bc, running, troom, tentry, tframe,
                 tsnapP, tsnapM, tupd, tatk, tmv>>

\* Room.move_mob after add_mob returned: the broadcast of the leave text begins
MoveLeft ==
  /\ tpc = "mv_left"
  /\ running = TickTask
  /\ bc' = [bc EXCEPT ![TickTask] =
              [BcBegin(tmv.src, "leaves_to", tmv.m) EXCEPT !.then = "mobs"]]
  /\ tpc' = "bcast"
  /\ tmv' = NoMv
  /\ sent' = NoMsg
  /\ UNCHANGED <<ConfigVars, CountVars, MobVars, PlayerSide, lock, running, troom, tentry, tframe,
                 tsnapP, tsnapM, tupd, tatk>>

\* ------------------------------------------------------------------- Next
Next ==
  \/ \E c \in Conns : \E n \in NameChoices(c) : AddPlayer(c, n)
  \/ \E c \in Conns : EnterAcquire(c)
  \/ \E c \in Conns : PlayerWait(c)
  \/ \E c \in Conns : EnterBroadcast(c)
  \/ \E c \in Conns : EnterRelease(c)
  \/ \E c \in Conns : \E d \in CmdDirs : Move(c, d)
  \/ \E c \in Conns : LeaveCheck(c)
  \/ \E c \in Conns : LeaveAcquire(c)
  \/ \E c \in Conns : LeavePop(c)
  \/ \E c \in Conns : LeaveRelease(c)
  \/ \E c \in Conns : LeaveBcBegin(c)
  \/ \E c \in Conns : LeaveBroadcast(c)
  \/ \E c \in Conns : \E t \in Targets : StartCombat(c, t)
  \/ TickBegin
  \/ RoomUpdate
  \/ SpawnNext
  \/ TickWait
  \/ AddMobAcquire
  \/ AddMobInsert
  \/ AddMobRelease
  \/ TickBroadcast
  \/ SpawnDone
  \/ PlayersNext
  \/ AttackMob
  \/ MobDied
  \/ AttackBack
  \/ AttackPlayer
  \/ PlayerDied
  \/ RoomDone
  \/ MobStay
  \/ MobMove
  \/ MoveAcquire
  \/ MovePop
  \/ MoveRelease
  \/ MoveLeft

Spec == Init /\ [][Next]_vars

\* ------------------------------------------------- the two-movers scenario
\* Two players in the linked rooms of Trail, the first in room 2 and the second
\* in room 1 (where the first's move north has brought them), each about to
\* send one movement command through the exit of its room.
InitMoves ==
  /\ world = Trail(1)
  /\ sharedLock \in BOOLEAN
  /\ rplayers = [r \in Rooms |-> IF r = 2 THEN <<[name |-> "ann", who |-> 1]>>
                                 ELSE <<[name |-> "bob", who |-> 2]>>]
  /\ rmobs = [r \in Rooms |-> <<>>]
  /\ spawn_lock = [r \in Rooms |-> 0]
  /\ current = [r \in Rooms |-> [i \in 1..Len(world.spawns[r]) |-> 0]]
  /\ lock = [r \in Rooms |-> NoTask]
  /\ registry = [n \in Names |-> IF n = "ann" THEN 1 ELSE 2]
  /\ player = [c \in Conns |->
                 IF c = 1 THEN [name |-> "ann", room |-> 2, health |-> PlayerHealth,
                                combat |-> NoMobId]
                 ELSE IF c = 2 THEN [name |-> "bob", room |-> 1, health |-> PlayerHealth,
                                     combat |-> NoMobId]
                 ELSE NoPlayerRec]
  /\ mob = [m \in MobIds |-> NoMob]
  /\ nmobs = 0
  /\ pc = [c \in Conns |-> IF c \in {1, 2} THEN "idle" ELSE "new"]
  /\ loc = [c \in Conns |-> NoLoc]
  /\ bc = [t \in Tasks |-> NoBc]
  /\ running = NoTask
  /\ tpc = "sleep"
  /\ troom = 0
  /\ tentry = 0
  /\ tframe = {}
  /\ tsnapP = <<>>
  /\ tsnapM = <<>>
  /\ tupd = <<>>
  /\ tatk = NoAtk
  /\ tmv = NoMv
  /\ ncmds = 1
  /\ nticks = 0
  /\ sent = NoMsg

MoverStart(c) == IF c = 1 THEN 2 ELSE 1
Movers == {1, 2}

\* the one movement command of a mover: through the exit of the room it starts in
MoveOpposite(c) ==
  /\ player[c].room = MoverStart(c)
  /\ \E d \in DOMAIN exits(MoverStart(c)) : Move(c, d)

NextMoves ==
  \/ \E c \in Movers : MoveOpposite(c)
  \/ \E c \in Movers : PlayerWait(c)
  \/ \E c \in Movers : LeaveCheck(c)
  \/ \E c \in Movers : LeaveAcquire(c)
  \/ \E c \in Movers : LeavePop(c)
  \/ \E c \in Movers : LeaveRelease(c)
  \/ \E c \in Movers : EnterAcquire(c)
  \/ \E c \in Movers : EnterBroadcast(c)
  \/ \E c \in Movers : EnterRelease(c)
  \/ \E c \in Movers : LeaveBcBegin(c)
  \/ \E c \in Movers : LeaveBroadcast(c)

SpecMoves == InitMoves /\ [][NextMoves]_vars

\* ------------------------------------------------ websocket_endpoint ends
\* WebSocketDisconnect is raised by receive_text, where the endpoint waits for
\* the next text: manager.disconnect, Mud.disconnect (self.connections.pop) and
\* the manager's broadcast that the client left.  The connection is gone; the
\* Player, Mud.players and Room.players are not touched.
Disconnect(c) ==
  /\ pc[c] \in {"new", "idle"}
  /\ running = NoTask
  /\ pc' = [pc EXCEPT ![c] = "gone"]
  /\ sent' = Msg(NoPlayer, "left_chat", c, NoRoom)
  /\ running' = NoTask
  /\ UNCHANGED <<ConfigVars, CountVars, rplayers, MobVars, lock, registry, player, loc, bc,
                 TickVars>>

\* the connections' side of the server: names, moves and disconnects, no tick
NextSessions ==
  \/ \E c \in Conns : \E n \in NameChoices(c) : AddPlayer(c, n)
  \/ \E c \in Conns : EnterAcquire(c)
  \/ \E c \in Conns : PlayerWait(c)
  \/ \E c \in Conns : EnterBroadcast(c)
  \/ \E c \in Conns : EnterRelease(c)
  \/ \E c \in Conns : \E d \in CmdDirs : Move(c, d)
  \/ \E c \in Conns : LeaveCheck(c)
  \/ \E c \in Conns : LeaveAcquire(c)
  \/ \E c \in Conns : LeavePop(c)
  \/ \E c \in Conns : LeaveRelease(c)
  \/ \E c \in Conns : LeaveBcBegin(c)
  \/ \E c \in Conns : LeaveBroadcast(c)
  \/ \E c \in Conns : Disconnect(c)

SpecSessions == Init /\ [][NextSessions]_vars

\* ------------------------------------------------- the round-trip scenario
\* Trail: room 1 exits north to room 2, room 2 exits south to room 1.  The
\* first player is in room 1 and sends `n`, then `s`; a second player, if it
\* has joined, stands in one of the rooms and sends nothing.
Bystander == 2
BystanderRooms == {NoRoom, 1, 2}
InitRoundTrip ==
  \E b \in BystanderRooms :
    /\ world = Trail(1)
    /\ sharedLock \in BOOLEAN
    /\ rplayers = [r \in Rooms |->
                     (IF b = r THEN <<[name |-> "bob", who |-> Bystander]>> ELSE <<>>)
                     \o (IF r = StartRoom THEN <<[name |-> "ann", who |-> 1]>> ELSE <<>>)]
    /\ rmobs = [r \in Rooms |-> <<>>]
    /\ spawn_lock = [r \in Rooms |-> 0]
    /\ current = [r \in Rooms |-> [i \in 1..Len(world.spawns[r]) |-> 0]]
    /\ lock = [r \in Rooms |-> NoTask]
    /\ registry = [n \in Names |-> IF n = "ann" THEN 1
                                   ELSE IF b # NoRoom THEN Bystander ELSE NoPlayer]
    /\ player = [c \in Conns |->
                   IF c = 1 THEN [name |-> "ann", room |-> StartRoom,
                                  health |-> PlayerHealth, combat |-> NoMobId]
                   ELSE IF c = Bystander /\ b # NoRoom
                   THEN [name |-> "bob", room |-> b, health |-> PlayerHealth,
                         combat |-> NoMobId]
                   ELSE NoPlayerRec]
    /\ mob = [m \in MobIds |-> NoMob]
    /\ nmobs = 0
    /\ pc = [c \in Conns |-> IF c = 1 \/ (c = Bystander /\ b # NoRoom) THEN "idle" ELSE "new"]
    /\ loc = [c \in Conns |-> NoLoc]
    /\ bc = [t \in Tasks |-> NoBc]
    /\ running = NoTask
    /\ tpc = "sleep"
    /\ troom = 0
    /\ tentry = 0
    /\ tframe = {}
    /\ tsnapP = <<>>
    /\ tsnapM = <<>>
    /\ tupd = <<>>
    /\ tatk = NoAtk
    /\ tmv = NoMv
    /\ ncmds = MaxCmds - 2
    /\ nticks = 0
    /\ sent = NoMsg

\* the first player's next command: north first, south second
RoundTripMove ==
  /\ ncmds \in {MaxCmds - 2, MaxCmds - 1}
  /\ Move(1, IF ncmds = MaxCmds - 2 THEN "n" ELSE "s")

NextRoundTrip ==
  \/ RoundTripMove
  \/ LeaveCheck(1)
  \/ LeaveAcquire(1)
  \/ LeavePop(1)
  \/ LeaveRelease(1)
  \/ EnterAcquire(1)
  \/ EnterBroadcast(1)
  \/ EnterRelease(1)
  \/ LeaveBcBegin(1)
  \/ LeaveBroadcast(1)

SpecRoundTrip == InitRoundTrip /\ [][NextRoundTrip]_vars

\* ------------------------------------------------- the one-session scenario
\* Trail after a tick has spawned the rat in room 2: the first player stands in
\* room 2 and has just sent `kill a rat`; a second player, if it has joined,
\* stands there too and sends nothing.  Only the tick loop runs; nticks counts
\* the ticks started since the session began.
Fighter == 1
InitCombat ==
  \E b \in {NoRoom, 2} :
    /\ world = Trail(1)
    /\ sharedLock \in BOOLEAN
    /\ rplayers = [r \in Rooms |->
                     IF r # 2 THEN <<>>
                     ELSE <<[name |-> "ann", who |-> Fighter]>>
                          \o (IF b = r THEN <<[name |-> "bob", who |-> Bystander]>> ELSE <<>>)]
    /\ rmobs = [r \in Rooms |-> IF r = 2 THEN <<1>> ELSE <<>>]
    /\ spawn_lock = [r \in Rooms |-> 0]
    /\ current = [r \in Rooms |-> [i \in 1..Len(world.spawns[r]) |-> 1]]
    /\ lock = [r \in Rooms |-> NoTask]
    /\ registry = [n \in Names |-> IF n = "ann" THEN Fighter
                                   ELSE IF b # NoRoom THEN Bystander ELSE NoPlayer]
    /\ player = [c \in Conns |->
                   IF c = Fighter THEN [name |-> "ann", room |-> 2,
                                        health |-> PlayerHealth, combat |-> 1]
                   ELSE IF c = Bystander /\ b # NoRoom
                   THEN [name |-> "bob", room |-> b, health |-> PlayerHealth,
                         combat |-> NoMobId]
                   ELSE NoPlayerRec]
    /\ mob = [m \in MobIds |-> IF m = 1 THEN [NewMob(2, 1) EXCEPT !.room = 2] ELSE NoMob]
    /\ nmobs = 1
    /\ pc = [c \in Conns |-> IF c = Fighter \/ (c = Bystander /\ b # NoRoom)
                             THEN "idle" ELSE "new"]
    /\ loc = [c \in Conns |-> NoLoc]
    /\ bc = [t \in Tasks |-> NoBc]
    /\ running = NoTask
    /\ tpc = "sleep"
    /\ troom = 0
    /\ tentry = 0
    /\ tframe = {}
    /\ tsnapP = <<>>
    /\ tsnapM = <<>>
    /\ tupd = <<>>
    /\ tatk = NoAtk
    /\ tmv = NoMv
    /\ ncmds = MaxCmds
    /\ nticks = 0
    /\ sent = NoMsg

NextCombat ==
  \/ TickBegin
  \/ RoomUpdate
  \/ SpawnNext
  \/ AddMobAcquire
  \/ AddMobInsert
  \/ AddMobRelease
  \/ TickBroadcast
  \/ SpawnDone
  \/ PlayersNext
  \/ AttackMob
  \/ MobDied
  \/ AttackBack
  \/ AttackPlayer
  \/ RoomDone
  \/ MobStay
  \/ MobMove
  \/ MoveAcquire
  \/ MovePop
  \/ MoveRelease
  \/ MoveLeft

SpecCombat == InitCombat /\ [][NextCombat]_vars

\* =================================================================== claims
Created(m) == mob[m].name # ""
Dead(m) == Created(m) /\ mob[m].health < 0 /\ mob[m].room = NoRoom
InRoomMap(c, r) == InSeq(rplayers[r], [name |-> player[c].name, who |-> c])
UniqueName(c) == \A d \in Conns \ {c} : player[d].name # player[c].name
Holds(t) == {k \in Rooms : lock[k] = t}
WaitsForLock(t) ==
  IF t = TickTask THEN tpc \in {"add_lock", "mv_lock"}
  ELSE pc[t] \in {"enter", "leave_lock"}
Ended(t) ==
  IF t = TickTask THEN tpc \in {"sleep", "crashed"}
  ELSE pc[t] \in {"new", "idle", "crashed"}

\* C1: whenever a player (whose name no other player has) has no command and no
\* death in progress, a room's occupant map holds it under its name if and only
\* if its location is that room.
C1_LocationMatchesOccupancy ==
  \A c \in Conns :
    (pc[c] = "idle" /\ UniqueName(c) /\ ~(tpc = "pdied" /\ tatk.who = c))
      => \A r \in Rooms : InRoomMap(c, r) <=> player[c].room = r

\* C2: in every reachable state the current count of every spawn rule of every
\* room is at most its desired count.
C2_CurrentLeDesired ==
  \A r \in Rooms : \A i \in 1..Len(spawns(r)) : current[r][i] <= spawns(r)[i].desired

\* a room with two rules and no cooldown has spawned both, a mob has died, and
\* a rule is at its desired count
C2_Witness ==
  \E r \in Rooms :
    /\ Len(spawns(r)) >= 2
    /\ spawn_cooldown(r) = 0
    /\ \E m \in MobIds : Dead(m)
    /\ \E i \in 1..Len(spawns(r)) : current[r][i] = spawns(r)[i].desired
    /\ nmobs >= 2

\* C3: a mob that has died (health below zero, Mob.die finished) is in no
\* room's NPC map.
C3_DeadMobRemoved ==
  \A m \in MobIds : Dead(m) => \A r \in Rooms : ~InSeq(rmobs[r], m)

\* C4: outside Room.spawn's step from adding a mob to counting it, the current
\* count of every rule is the number of the instances it created whose death
\* has not been finalized: each death takes one from the count of the rule that
\* created the instance, once, and from no other rule's.
C4_DeathDecrementsOwnRule ==
  tmv.from # "spawn" =>
    \A r \in Rooms : \A i \in 1..Len(spawns(r)) :
      current[r][i] =
        Cardinality({m \in MobIds : Created(m) /\ ~Dead(m) /\ mob[m].origin = <<r, i>>})

\* C5: in the two-movers scenario no handler fails, a step is possible until
\* both moves are over, no player is ever in two occupant maps, and when both
\* moves are over each player is in the occupant map of its destination, and
\* of no other room, with its location set to it.
MoveOver(c) == pc[c] = "idle" /\ player[c].room # MoverStart(c)
C5_OppositeMovesConsistent ==
  /\ \A c \in Movers : pc[c] # "crashed"
  /\ (\A c \in Movers : MoveOver(c)) \/ ENABLED NextMoves
  /\ \A c \in Movers : Cardinality({r \in Rooms : InRoomMap(c, r)}) <= 1
  /\ (\A c \in Movers : MoveOver(c)) =>
       \A c \in Movers : \A r \in Rooms :
         InRoomMap(c, r) <=> (r # MoverStart(c) /\ player[c].room = r)

\* both moves are under way at once: one mover announces its entry holding the
\* lock of the room the other mover waits to leave
C5_Witness ==
  \E c \in Movers : \E d \in Movers \ {c} :
    /\ pc[c] = "enter_bc" /\ lock[LockOf(loc[c].dst)] = c
    /\ pc[d] = "leave_lock" /\ LockOf(loc[d].src) = LockOf(loc[c].dst)
    /\ running = NoTask

\* C6: no task holds two locks, and no task waits for a lock while holding one;
\* a lock is held only by a task that is in a critical section, so a task that
\* waits for it is not waiting for a task that has ended or waits itself.
C6_NoLockHeldWhileWaiting ==
  \A t \in Tasks :
    /\ Cardinality(Holds(t)) <= 1
    /\ WaitsForLock(t) => Holds(t) = {}
    /\ Ended(t) => Holds(t) = {}

\* a moving player has released the lock of the room it left and holds the lock
\* of the room it enters, and another player waits for that lock
C6_Witness ==
  \E c \in Conns : \E d \in Conns \ {c} :
    /\ pc[c] = "enter_bc" /\ loc[c].src # NoRoom
    /\ Holds(c) = {LockOf(loc[c].dst)}
    /\ pc[d] = "leave_lock" /\ LockOf(loc[d].src) \in Holds(c)
    /\ running = NoTask

\* C7 as claimed: every step that changes a room's player map, its NPC map or
\* a current counter of its rules is taken by a task that holds the room's lock.
ChangedUnderLock(r) == running' # NoTask /\ lock[LockOf(r)] = running' /\ lock'[LockOf(r)] = running'
C7_AllMutationsUnderLock ==
  [][\A r \in Rooms :
       (rplayers'[r] # rplayers[r] \/ rmobs'[r] # rmobs[r] \/ current'[r] # current[r])
         => ChangedUnderLock(r)]_vars

\* C7 as amended: every step that changes a room's player map or its NPC map is
\* taken by a task that holds the room's lock; the current counters are changed
\* by the tick task only, without the lock.
C7_MapMutationsUnderLock ==
  [][/\ \A r \in Rooms :
          (rplayers'[r] # rplayers[r] \/ rmobs'[r] # rmobs[r]) => ChangedUnderLock(r)
     /\ current' # current => (running' = TickTask /\ Holds(TickTask) = {})]_vars

\* a player has just been added to a room's map by a task holding the lock, and
\* a counter has been incremented
C7_Witness ==
  /\ \E c \in Conns : pc[c] = "enter_rel" /\ lock[LockOf(loc[c].dst)] = c
                      /\ InRoomMap(c, loc[c].dst)
  /\ \E r \in Rooms : \E i \in 1..Len(spawns(r)) : current[r][i] > 0

\* C8: the step of Room.leave for a direction without an exit changes no
\* room's maps, no player, no lock and nothing else of the world; it sends one
\* text, the error naming the room's exits, to the player, and the command is over.
C8_NoExitLeaveChangesNothing ==
  [][\A c \in Conns :
       (pc[c] = "leave" /\ pc'[c] # "leave" /\ loc[c].dir \notin DOMAIN exits(loc[c].src))
         => /\ UNCHANGED <<rplayers, rmobs, player, lock, registry, mob, current, spawn_lock>>
            /\ sent' = Msg(c, "noexit", c, loc[c].src)
            /\ pc'[c] = "idle"]_vars

\* the error has just been sent in a room that has no exit at all
C8_Witness ==
  /\ sent.kind = "noexit"
  /\ DOMAIN exits(sent.room) = {}
  /\ pc[sent.to] = "idle"

\* C9: between ticks no combat session has a target whose health is below zero.
C9_SessionEndsOnDeath ==
  tpc = "sleep" =>
    \A c \in Conns :
      player[c].combat # NoMobId => mob[player[c].combat].health >= 0

\* C10: the target of every combat session has its in_combat flag set.
C10_TargetInCombat ==
  \A c \in Conns : player[c].combat # NoMobId => mob[player[c].combat].in_combat

\* C11: a player whose session has disconnected, or who has died, is no longer
\* in the world's player registry and is in no room's occupant map.
Destroyed(c) ==
  /\ player[c].name # ""
  /\ \/ pc[c] = "gone"
     \/ player[c].health < 0 /\ player[c].room = NoRoom
C11_DestroyedPlayerRemoved ==
  \A c \in Conns :
    Destroyed(c) =>
      /\ registry[player[c].name] # c
      /\ \A r \in Rooms : ~InRoomMap(c, r)

\* C12: one call of Room.update adds at most one new NPC instance to the room.
C12_OneSpawnPerRoomPerTick ==
  Cardinality(tframe) <= 1

\* C13: for every spawn rule, the instances it created that are not dead are at
\* most its desired count.
LiveOf(r, i) == {m \in MobIds : Created(m) /\ ~Dead(m) /\ mob[m].origin = <<r, i>>}
C13_LiveInstancesLeDesired ==
  \A r \in Rooms : \A i \in 1..Len(spawns(r)) :
    Cardinality(LiveOf(r, i)) <= spawns(r)[i].desired

\* C14: whatever the players send, Mud.update never fails with an unhandled
\* error: the tick loop is never ended by an exception.
C14_TickLoopNeverStops ==
  tpc # "crashed"

\* C15: every "{name} enters." and "{name} leaves." text is sent to an occupant
\* while the task that made the move holds the lock of the room announced to.
C15_AnnouncedUnderLock ==
  sent.kind \in {"enters", "leaves"} => lock[LockOf(sent.room)] = sent.subj

\* C16: while Room.enter announces a player, the recipients still to come are
\* the rest of the occupant map as it is, which does not hold the entering
\* player; each step of the announcement sends "{name} enters." to the next of
\* them and changes no map, it never fails, and the player is added only when
\* all of them have been sent to.  The room description goes to the player only
\* when it is in the room's occupant map and its location is that room.
Entering(c) == pc[c] = "enter_bc"
RestOfOccupants(c) ==
  LET V == Values(rplayers[loc[c].dst])
  IN /\ \E k \in 0..Len(V) : bc[c].rest = SubSeq(V, k + 1, Len(V))
     /\ ~InSeq(V, c)
C16_EntersGoesToPriorOccupants ==
  [][/\ \A c \in Conns :
          /\ Entering(c)' => RestOfOccupants(c)'
          /\ (Entering(c) /\ <<pc[c], bc[c]>>' # <<pc[c], bc[c]>>) =>
               /\ pc'[c] # "crashed"
               /\ IF bc[c].rest # <<>>
                  THEN /\ sent' = Msg(Head(bc[c].rest), "enters", c, loc[c].dst)
                       /\ sent'.to # c
                       /\ bc'[c].rest = Tail(bc[c].rest)
                       /\ UNCHANGED rplayers
                  ELSE /\ sent'.kind # "enters"
                       /\ InRoomMap(c, loc[c].dst)'
          /\ (~Entering(c) /\ ~Entering(c)') => ~(sent'.kind = "enters" /\ sent'.subj = c)
     /\ sent'.kind = "room" =>
          /\ InRoomMap(sent'.to, sent'.room)
          /\ player'[sent'.to].room = sent'.room]_vars

\* a player that entered a room with another occupant, who was sent the
\* announcement, has just been sent the room description
C16_Witness ==
  /\ sent.kind = "room"
  /\ Len(rplayers[sent.room]) >= 2
  /\ player[sent.to].room = sent.room

\* C17: after the move north the player is in room 2's occupant map only, with
\* its location room 2; after the move south that follows, the occupant maps of
\* both rooms (as maps: a dict's equality does not see the order of its keys)
\* and the player's location are what they were before the two moves.
Occupants(r) == {rplayers[r][i] : i \in 1..Len(rplayers[r])}
OccupantsBefore(r) ==
  (IF r = StartRoom THEN {[name |-> "ann", who |-> 1]} ELSE {})
    \cup (IF player[Bystander].room = r THEN {[name |-> "bob", who |-> Bystander]} ELSE {})
C17_RoundTripRestores ==
  /\ pc[1] # "crashed"
  /\ (pc[1] = "idle" /\ ncmds = MaxCmds - 1) =>
       /\ player[1].room = 2
       /\ InRoomMap(1, 2) /\ ~InRoomMap(1, 1)
  /\ (pc[1] = "idle" /\ ncmds = MaxCmds) =>
       /\ player[1].room = StartRoom
       /\ \A r \in Rooms : Occupants(r) = OccupantsBefore(r)
       /\ \A r \in Rooms : Len(rplayers[r]) = Cardinality(Occupants(r))

\* the round trip is over in a world where the start room has another occupant,
\* who has just been told that the player arrived back
C17_Witness ==
  /\ pc[1] = "idle" /\ ncmds = MaxCmds
  /\ player[Bystander].room = StartRoom
  /\ player[1].room = StartRoom
  /\ rplayers[StartRoom][1].who = Bystander

\* C18: between ticks, after N ticks of the session, the damage done to the
\* NPC (its template's health minus its health) is within [N*a, N*b] and the
\* damage done to the player is within [N*c, N*d], for the player's attack
\* range (a, b) and the NPC's (c, d): N exchanges, each side hit once in each.
DamageToMob(m) == spawns(mob[m].origin[1])[mob[m].origin[2]].mob.health - mob[m].health
DamageToPlayer(c) == PlayerHealth - player[c].health
UpdateOf(m) == tpc = "mobs" /\ tsnapM # <<>> /\ Head(tsnapM) = m /\ tsnapM' = Tail(tsnapM)
ExitTargets(r) == {exits(r)[d] : d \in DOMAIN exits(r)}
C19_MobMovesOnlyWhenAllowed ==
  [][\A m \in MobIds :
       /\ (UpdateOf(m) /\ tpc' = "mv_lock") =>
            /\ mob[m].room # NoRoom /\ ~mob[m].in_combat /\ mob[m].move_lock = 0
            /\ mob[m].wanders /\ DOMAIN exits(mob[m].room) # {}
            /\ mob'[m] = [mob[m] EXCEPT !.move_lock = mob[m].move_cooldown]
            /\ tmv'.m = m /\ tmv'.src = mob[m].room /\ tmv'.dst \in ExitTargets(mob[m].room)
       /\ (mob'[m].room # mob[m].room /\ mob[m].room # NoRoom /\ mob'[m].room # NoRoom) =>
            /\ tmv.m = m /\ tmv.from = "move"
            /\ mob[m].room = tmv.src /\ mob'[m].room = tmv.dst
            /\ tmv.dst \in ExitTargets(tmv.src)
       /\ (UpdateOf(m) /\ mob[m].room # NoRoom /\ ~mob[m].in_combat /\ mob[m].move_lock > 0) =>
            /\ mob' = [mob EXCEPT ![m].move_lock = @ - 1]
            /\ tpc' = "mobs" /\ UNCHANGED <<rmobs, current, tmv>>
       /\ (UpdateOf(m) /\ mob[m].room = NoRoom) =>
            /\ tpc' = "mobs" /\ UNCHANGED <<mob, rmobs, current, tmv>>
       /\ (mob'[m].move_lock # mob[m].move_lock /\ mob[m].name # "") => UpdateOf(m)
       /\ 0 <= mob'[m].move_lock /\ mob'[m].move_lock <= mob'[m].move_cooldown]_vars

\* a mob has moved out of the room that spawned it, and a later update has
\* counted its move_lock down to 0 again
C19_Witness ==
  \E m \in MobIds :
    /\ Created(m)
    /\ mob[m].room \notin {NoRoom, mob[m].origin[1]}
    /\ mob[m].move_lock = 0
    /\ mob[m].move_cooldown > 0
    /\ tmv.m # m

\* C20: every NPC instance is in at most one room's NPC map, once; and unless
\* Room.move_mob or Room.add_mob is at work on it, an NPC whose location is a
\* room is in that room's NPC map.
MobMaps(m) == {r \in Rooms : InSeq(rmobs[r], m)}
TimesIn(r, m) == Cardinality({i \in 1..Len(rmobs[r]) : rmobs[r][i] = m})
BeingPlaced(m) ==
  /\ tmv.m = m
  /\ tpc \in {"mv_lock", "mv_pop", "mv_rel", "add_lock", "add_ins", "add_rel"}
C20_MobInAtMostOneRoom ==
  \A m \in MobIds :
    /\ Cardinality(MobMaps(m)) <= 1
    /\ \A r \in Rooms : TimesIn(r, m) <= 1
    /\ (mob[m].room # NoRoom /\ ~BeingPlaced(m)) => MobMaps(m) = {mob[m].room}

\* between ticks, a mob that has moved is in the NPC map of the room it moved
\* to and no longer in that of the room that spawned it
C20_Witness ==
  \E m \in MobIds :
    /\ tpc = "sleep"
    /\ mob[m].room \notin {NoRoom, mob[m].origin[1]}
    /\ MobMaps(m) = {mob[m].room}

\* C21: within one call of Mud.update no NPC's Mob.update runs twice.
UpdatesOf(m) == Cardinality({i \in 1..Len(tupd) : tupd[i] = m})
C21_OneUpdatePerTick ==
  \A m \in MobIds : UpdatesOf(m) <= 1
====
